---- MODULE Spec2Model ----
(***************************************************************************)
(* A model of stl_splitter (src/stl_splitter/src/main.rs): Mesh::load,     *)
(* Mesh::get_dimensions, Mesh::split, Mesh::save and the run of main.      *)
(*                                                                         *)
(* f32 values are encoded as integers that count half grid steps, so that  *)
(* the midpoint (max + min) / 2.0 of two grid coordinates (even numbers)   *)
(* is exact; NaN is one extra value on which every comparison is false.    *)
(***************************************************************************)
EXTENDS Integers, Sequences, FiniteSets, TLC

VARIABLES
    pc,          \* the statement of main (or of the function under check) to run next
    build,       \* "debug" | "release": whether integer overflow checks are compiled in
    arg,         \* std::env::args().nth(1): "none" or "given"
    dirs,        \* the directories created so far
    stl_files,   \* the closure's stl_files (positions of the *.stl directory entries)
    input,       \* the closure's input line, a sequence of characters
    input_path,  \* main's input_path
    disk,        \* the files: "input" (the resolved input file), "upper", "lower"
    mesh,        \* main's mesh.triangles
    dims,        \* main's (min, max)
    z_split,     \* main's z_split / split's z_height
    upper,       \* main's upper
    lower,       \* main's lower
    status       \* how the run (or the call) ended: [exit, err]

vars == <<pc, build, arg, dirs, stl_files, input, input_path, disk, mesh, dims,
          z_split, upper, lower, status>>

----------------------------------------------------------------------------
(* Bounds of the model.                                                    *)

\* Triangles in a mesh handed to split.
MaxTris == 2
\* Triangles in a mesh handed to get_dimensions.
MaxDimTris == 2
\* Facets in a triangle list handed to save and read back.
MaxFacets == 2
\* Entries of models/input.
MaxEntries == 2
\* Characters of the selection typed at the prompt.
MaxLineLen == 2

----------------------------------------------------------------------------
(* f32                                                                     *)

\* The encoding of NaN: a value apart from every finite value (all >= 0).
NaN == 0 - 1

\* a >= b on f32: false when either side is NaN.
F32Ge(a, b) == a # NaN /\ b # NaN /\ a >= b

\* a <= b on f32: false when either side is NaN.
F32Le(a, b) == a # NaN /\ b # NaN /\ a <= b

\* f32::min: when one argument is NaN the other is returned.
F32Min(a, b) == IF a = NaN THEN b ELSE IF b = NaN THEN a ELSE IF a <= b THEN a ELSE b

\* f32::max: when one argument is NaN the other is returned.
F32Max(a, b) == IF a = NaN THEN b ELSE IF b = NaN THEN a ELSE IF a >= b THEN a ELSE b

\* (a + b) / 2.0: NaN when either side is NaN.
F32Mid(a, b) == IF a = NaN \/ b = NaN THEN NaN ELSE (a + b) \div 2

\* The coordinate values of the checked meshes: two grid values and NaN.
Coords == {0, 2, NaN}

\* The cutting heights of the checked calls of split: on, between and off the grid.
Heights == {0, 1, 2, NaN}

----------------------------------------------------------------------------
(* Triangles and files                                                     *)

\* Vector([0.0, 0.0, 1.0]), the normal the loader gives every triangle.
DefaultNormal == <<0, 0, 2>>

\* A normal other than the loader's, as a file may hold.
FileNormal == <<2, 0, 0>>

Triangle(n, v1, v2, v3) == [normal |-> n, vertices |-> <<v1, v2, v3>>]

Range(s) == {s[i] : i \in 1..Len(s)}

\* The vertices of a triangle sequence, in order.
Flatten(ts) ==
    [k \in 1..(3 * Len(ts)) |-> ts[(k + 2) \div 3].vertices[((k - 1) % 3) + 1]]

\* What a file holds: nothing (no such file), bytes that are no STL, or an STL
\* solid: a facet count and the facets, each a normal and three vertices.
Absent == [kind |-> "absent"]
Corrupt == [kind |-> "corrupt"]
Stl(facets) == [kind |-> "stl", count |-> Len(facets), facets |-> facets]

\* stl_io::write_stl: the count, then per triangle its normal and its vertices.
WriteStl(triangles) ==
    Stl([i \in 1..Len(triangles) |->
            <<triangles[i].normal, triangles[i].vertices[1],
              triangles[i].vertices[2], triangles[i].vertices[3]>>])

\* The facets' vertices as the file lists them: three per facet, after the
\* facet's normal.
FacetVertices(facets) ==
    [k \in 1..(3 * Len(facets)) |-> facets[(k + 2) \div 3][((k - 1) % 3) + 2]]

\* The vertices of the IndexedMesh that stl_io::read_stl returns: each distinct
\* vertex (by bit pattern) once, in the order of its first appearance in the
\* facets. The facets themselves are the IndexedMesh's faces, triples of
\* indices into this list, which load does not read.
UniqueVertices(vs) ==
    LET first == {k \in 1..Len(vs) : \A j \in 1..(k - 1) : vs[j] # vs[k]}
    IN  [n \in 1..Cardinality(first) |->
            vs[CHOOSE k \in first : Cardinality({j \in first : j <= k}) = n]]

\* stl_io::read_stl: an error for bytes that are no STL, else the IndexedMesh,
\* of which load reads only the vertices.
ReadStl(content) ==
    IF content.kind # "stl" THEN [ok |-> FALSE, vertices |-> <<>>]
    ELSE [ok |-> TRUE, vertices |-> UniqueVertices(FacetVertices(content.facets))]

\* chunks_exact(3) mapped to triangles with the default normal.
ChunksExact3(vs) ==
    [i \in 1..(Len(vs) \div 3) |->
        Triangle(DefaultNormal, vs[3 * i - 2], vs[3 * i - 1], vs[3 * i])]

\* The errors of load, by their messages.
ErrOpen == "io: open"
ErrParse == "stl_io: read_stl"
ErrNotDivisible == "Invalid STL file: vertex count not divisible by 3"
ErrNoTriangles == "No triangles found in STL file"

\* Mesh::load without its two tests on the vertex count.
MeshLoadNoCountCheck(content) ==
    LET m == ReadStl(content)
        triangles == ChunksExact3(m.vertices)
    IN  IF content.kind = "absent" THEN [ok |-> FALSE, err |-> ErrOpen, triangles |-> <<>>]
        ELSE IF ~m.ok THEN [ok |-> FALSE, err |-> ErrParse, triangles |-> <<>>]
        ELSE [ok |-> TRUE, err |-> "", triangles |-> triangles]

\* Mesh::load on a file holding `content`.
MeshLoad(content) ==
    LET m == ReadStl(content)
        triangles == ChunksExact3(m.vertices)
    IN  IF content.kind = "absent" THEN [ok |-> FALSE, err |-> ErrOpen, triangles |-> <<>>]
        ELSE IF ~m.ok THEN [ok |-> FALSE, err |-> ErrParse, triangles |-> <<>>]
        ELSE IF Len(m.vertices) % 3 # 0
            THEN [ok |-> FALSE, err |-> ErrNotDivisible, triangles |-> <<>>]
        ELSE IF triangles = <<>>
            THEN [ok |-> FALSE, err |-> ErrNoTriangles, triangles |-> <<>>]
        ELSE [ok |-> TRUE, err |-> "", triangles |-> triangles]

----------------------------------------------------------------------------
(* Mesh::get_dimensions                                                    *)

\* The loop over the vertices: componentwise min and max.
RECURSIVE DimLoop(_, _, _)
DimLoop(vs, min_array, max_array) ==
    IF vs = <<>> THEN <<min_array, max_array>>
    ELSE DimLoop(Tail(vs),
            [i \in 1..3 |-> F32Min(min_array[i], Head(vs)[i])],
            [i \in 1..3 |-> F32Max(max_array[i], Head(vs)[i])])

\* get_dimensions with min and max started at the origin, not at the first vertex.
GetDimsFromZero(triangles) ==
    DimLoop(Flatten(triangles), <<0, 0, 0>>, <<0, 0, 0>>)

GetDims(triangles) ==
    LET first_vertex == triangles[1].vertices[1]
    IN  DimLoop(Flatten(triangles), first_vertex, first_vertex)

----------------------------------------------------------------------------
(* Mesh::split                                                             *)

\* The upper test with any() in place of all().
AllGeAny(triangle, z_height) ==
    \E k \in 1..3 : F32Ge(triangle.vertices[k][3], z_height)

AllGe(triangle, z_height) ==
    \A k \in 1..3 : F32Ge(triangle.vertices[k][3], z_height)

\* The lower test with < in place of <=.
AllLeStrict(triangle, z_height) ==
    \A k \in 1..3 :
        /\ F32Le(triangle.vertices[k][3], z_height)
        /\ triangle.vertices[k][3] # z_height

AllLe(triangle, z_height) ==
    \A k \in 1..3 : F32Le(triangle.vertices[k][3], z_height)

\* The loop with the lower test made first.
RECURSIVE SplitLoopLowerFirst(_, _, _, _, _)
SplitLoopLowerFirst(triangles, z_height, i, up, lo) ==
    IF i > Len(triangles) THEN <<up, lo>>
    ELSE IF AllLe(triangles[i], z_height)
        THEN SplitLoopLowerFirst(triangles, z_height, i + 1, up, Append(lo, triangles[i]))
    ELSE IF AllGe(triangles[i], z_height)
        THEN SplitLoopLowerFirst(triangles, z_height, i + 1, Append(up, triangles[i]), lo)
    ELSE SplitLoopLowerFirst(triangles, z_height, i + 1, up, lo)

\* The loop with each triangle put in front of its list, not at its end.
RECURSIVE SplitLoopPrepend(_, _, _, _, _)
SplitLoopPrepend(triangles, z_height, i, up, lo) ==
    IF i > Len(triangles) THEN <<up, lo>>
    ELSE IF AllGe(triangles[i], z_height)
        THEN SplitLoopPrepend(triangles, z_height, i + 1, <<triangles[i]>> \o up, lo)
    ELSE IF AllLe(triangles[i], z_height)
        THEN SplitLoopPrepend(triangles, z_height, i + 1, up, <<triangles[i]>> \o lo)
    ELSE SplitLoopPrepend(triangles, z_height, i + 1, up, lo)

\* The loop over the triangles, from triangle i on.
RECURSIVE SplitLoop(_, _, _, _, _)
SplitLoop(triangles, z_height, i, up, lo) ==
    IF i > Len(triangles) THEN <<up, lo>>
    ELSE IF AllGe(triangles[i], z_height)
        THEN SplitLoop(triangles, z_height, i + 1, Append(up, triangles[i]), lo)
    ELSE IF AllLe(triangles[i], z_height)
        THEN SplitLoop(triangles, z_height, i + 1, up, Append(lo, triangles[i]))
    ELSE SplitLoop(triangles, z_height, i + 1, up, lo)

MeshSplit(triangles, z_height) == SplitLoop(triangles, z_height, 1, <<>>, <<>>)

----------------------------------------------------------------------------
(* The selection typed at the prompt                                       *)

\* The characters of the checked input lines: digits, a letter, a blank, a sign.
Chars == {"0", "1", "2", "3", "x", " ", "+"}

Digits == {"0", "1", "2", "3"}

DigitVal(c) == CASE c = "0" -> 0 [] c = "1" -> 1 [] c = "2" -> 2 [] c = "3" -> 3

\* str::trim: leading and trailing white space removed.
RECURSIVE Trim(_)
Trim(s) ==
    IF s = <<>> THEN s
    ELSE IF Head(s) = " " THEN Trim(Tail(s))
    ELSE IF s[Len(s)] = " " THEN Trim(SubSeq(s, 1, Len(s) - 1))
    ELSE s

RECURSIVE DecimalValue(_, _)
DecimalValue(s, acc) ==
    IF s = <<>> THEN acc ELSE DecimalValue(Tail(s), 10 * acc + DigitVal(Head(s)))

\* str::parse::<usize>: an optional "+", then one or more digits.
ParseUsize(s) ==
    LET digits == IF s # <<>> /\ Head(s) = "+" THEN Tail(s) ELSE s
    IN  IF digits = <<>> \/ \E i \in 1..Len(digits) : digits[i] \notin Digits
        THEN [ok |-> FALSE, val |-> 0]
        ELSE [ok |-> TRUE, val |-> DecimalValue(digits, 0)]

\* usize::MAX, as far as the model's integers reach: above every list length.
UsizeMax == 2147483647

\* idx - 1 on usize without overflow checks.
WrappingDec(idx) == IF idx = 0 THEN UsizeMax ELSE idx - 1

\* The directory entries: what path.extension() gives for each.
Extensions == {"stl", "STL", "none"}

\* The filter_map of the entries: the paths whose extension is "stl", in order.
RECURSIVE StlFilesFrom(_, _)
StlFilesFrom(entries, i) ==
    IF i > Len(entries) THEN <<>>
    ELSE IF entries[i] = "stl" THEN <<i>> \o StlFilesFrom(entries, i + 1)
    ELSE StlFilesFrom(entries, i + 1)

StlFiles(entries) == StlFilesFrom(entries, 1)

SeqsUpTo(S, n) == UNION {[1..k -> S] : k \in 0..n}

----------------------------------------------------------------------------
(* The run of main                                                         *)

Running == [exit |-> "running", err |-> ""]
Success == [exit |-> "0", err |-> ""]
Failure(e) == [exit |-> "1", err |-> e]
Panic(e) == [exit |-> "101", err |-> e]

ErrCreateDir == "io: create_dir_all"
ErrNoInput == "No input file specified"
ErrCreate == "io: create"
ErrWrite == "io: write"
ErrOverflow == "panicked: attempt to subtract with overflow"

\* An error returned from main: the run ends, everything else is left as it is.
Fail(e) ==
    /\ pc' = "failed"
    /\ status' = Failure(e)

\* A file that a failed write left truncated or cut short.
Partial == [kind |-> "partial"]

\* fs::create_dir_all(&input_dir)?
CreateInputDir ==
    /\ pc = "mkdir_in"
    /\ \/ /\ dirs' = dirs \cup {"models/input"}
          /\ pc' = "mkdir_out"
          /\ UNCHANGED status
       \/ /\ Fail(ErrCreateDir)
          /\ UNCHANGED dirs
    /\ UNCHANGED <<build, arg, stl_files, input, input_path, disk, mesh, dims,
                   z_split, upper, lower>>

\* fs::create_dir_all(&output_dir)?
CreateOutputDir ==
    /\ pc = "mkdir_out"
    /\ \/ /\ dirs' = dirs \cup {"models/output"}
          /\ pc' = "args"
          /\ UNCHANGED status
       \/ /\ Fail(ErrCreateDir)
          /\ UNCHANGED dirs
    /\ UNCHANGED <<build, arg, stl_files, input, input_path, disk, mesh, dims,
                   z_split, upper, lower>>

\* std::env::args().nth(1).map(PathBuf::from), or else the closure.
ResolveArg ==
    /\ pc = "args"
    /\ \/ /\ arg = "given"
          /\ input_path' = <<"arg">>
          /\ pc' = "load"
       \/ /\ arg = "none"
          /\ pc' = "read_dir"
          /\ UNCHANGED input_path
    /\ UNCHANGED <<build, arg, dirs, stl_files, input, disk, mesh, dims,
                   z_split, upper, lower, status>>

\* The closure up to the listing: read_dir, the filter on the extension, and
\* the return of None when the read fails or no entry is left.
ReadDir ==
    /\ pc = "read_dir"
    /\ \/ /\ Fail(ErrNoInput)
          /\ UNCHANGED stl_files
       \/ \E entries \in SeqsUpTo(Extensions, MaxEntries) :
            IF StlFiles(entries) = <<>>
            THEN Fail(ErrNoInput) /\ UNCHANGED stl_files
            ELSE /\ stl_files' = StlFiles(entries)
                 /\ pc' = "flush"
                 /\ UNCHANGED status
    /\ UNCHANGED <<build, arg, dirs, input, input_path, disk, mesh, dims,
                   z_split, upper, lower>>

\* print! of the prompt and io::stdout().flush()
Flush ==
    /\ pc = "flush"
    /\ \/ /\ pc' = "read_line"
          /\ UNCHANGED status
       \/ Fail(ErrNoInput)
    /\ UNCHANGED <<build, arg, dirs, stl_files, input, input_path, disk, mesh,
                   dims, z_split, upper, lower>>

\* io::stdin().read_line(&mut input)
ReadLine ==
    /\ pc = "read_line"
    /\ \/ \E line \in SeqsUpTo(Chars, MaxLineLen) :
            /\ input' = line
            /\ pc' = "select"
            /\ UNCHANGED status
       \/ /\ Fail(ErrNoInput)
          /\ UNCHANGED input
    /\ UNCHANGED <<build, arg, dirs, stl_files, input_path, disk, mesh, dims,
                   z_split, upper, lower>>

\* input.trim().parse::<usize>(), idx - 1, the range test and the result of
\* the closure; the closure's locals end with it.
Select ==
    /\ pc = "select"
    /\ LET parsed == ParseUsize(Trim(input))
           file_idx == WrappingDec(parsed.val)
       IN  \/ /\ ~parsed.ok
              /\ Fail(ErrNoInput)
              /\ UNCHANGED input_path
           \/ /\ parsed.ok
              /\ parsed.val = 0
              /\ build = "debug"
              /\ pc' = "failed"
              /\ status' = Panic(ErrOverflow)
              /\ UNCHANGED input_path
           \/ /\ parsed.ok
              /\ parsed.val = 0 => build = "release"
              /\ file_idx >= Len(stl_files)
              /\ Fail(ErrNoInput)
              /\ UNCHANGED input_path
           \/ /\ parsed.ok
              /\ parsed.val = 0 => build = "release"
              /\ file_idx < Len(stl_files)
              /\ input_path' = <<"models/input", stl_files[file_idx + 1]>>
              /\ pc' = "load"
              /\ UNCHANGED status
    /\ stl_files' = <<>>
    /\ input' = <<>>
    /\ UNCHANGED <<build, arg, dirs, disk, mesh, dims, z_split, upper, lower>>

\* let mesh = Mesh::load(&input_path)?
Load ==
    /\ pc = "load"
    /\ LET r == MeshLoad(disk.input)
       IN  IF r.ok
           THEN /\ mesh' = r.triangles
                /\ pc' = "dims"
                /\ UNCHANGED status
           ELSE /\ Fail(r.err)
                /\ UNCHANGED mesh
    /\ UNCHANGED <<build, arg, dirs, stl_files, input, input_path, disk, dims,
                   z_split, upper, lower>>

\* let (min, max) = mesh.get_dimensions()
GetDimensions ==
    /\ pc = "dims"
    /\ dims' = GetDims(mesh)
    /\ pc' = "midpoint"
    /\ UNCHANGED <<build, arg, dirs, stl_files, input, input_path, disk, mesh,
                   z_split, upper, lower, status>>

\* let z_split = (max[2] + min[2]) / 2.0
Midpoint ==
    /\ pc = "midpoint"
    /\ z_split' = F32Mid(dims[2][3], dims[1][3])
    /\ pc' = "split"
    /\ UNCHANGED <<build, arg, dirs, stl_files, input, input_path, disk, mesh,
                   dims, upper, lower, status>>

\* let (upper, lower) = mesh.split(z_split)
Split ==
    /\ pc = "split"
    /\ upper' = MeshSplit(mesh, z_split)[1]
    /\ lower' = MeshSplit(mesh, z_split)[2]
    /\ pc' = "save_upper"
    /\ UNCHANGED <<build, arg, dirs, stl_files, input, input_path, disk, mesh,
                   dims, z_split, status>>

\* Mesh::save(triangles, path)?: File::create fails and leaves the file as it
\* was, or write_stl fails on the created (truncated) file, or the file holds
\* the triangles.
Save(triangles, file, next) ==
    \/ /\ Fail(ErrCreate)
       /\ UNCHANGED disk
    \/ /\ Fail(ErrWrite)
       /\ disk' = [disk EXCEPT ![file] = Partial]
    \/ /\ disk' = [disk EXCEPT ![file] = WriteStl(triangles)]
       /\ pc' = next
       /\ status' = IF next = "done" THEN Success ELSE status

\* Mesh::save(&upper, &upper_path)?
SaveUpper ==
    /\ pc = "save_upper"
    /\ Save(upper, "upper", "save_lower")
    /\ UNCHANGED <<build, arg, dirs, stl_files, input, input_path, mesh, dims,
                   z_split, upper, lower>>

\* The second save with a clean-up: when it fails the upper file is removed.
SaveLowerRollsBack ==
    /\ pc = "save_lower"
    /\ \/ /\ Fail(ErrCreate)
          /\ disk' = [disk EXCEPT !["upper"] = Absent]
       \/ /\ Fail(ErrWrite)
          /\ disk' = [disk EXCEPT !["upper"] = Absent, !["lower"] = Partial]
       \/ /\ disk' = [disk EXCEPT !["lower"] = WriteStl(lower)]
          /\ pc' = "done"
          /\ status' = Success
    /\ UNCHANGED <<build, arg, dirs, stl_files, input, input_path, mesh, dims,
                   z_split, upper, lower>>

\* Mesh::save(&lower, &lower_path)?, and Ok(()) after it
SaveLower ==
    /\ pc = "save_lower"
    /\ Save(lower, "lower", "done")
    /\ UNCHANGED <<build, arg, dirs, stl_files, input, input_path, mesh, dims,
                   z_split, upper, lower>>

----------------------------------------------------------------------------
(* The input files of the checked runs                                     *)

Facet(v1, v2, v3) == <<FileNormal, v1, v2, v3>>

\* The top and the bottom face of the cube with corners at 0 and 4 (0.0 and
\* 1.0 in the units of the spec: the cut at the midpoint is at 2).
CubeTop ==
    << Facet(<<0, 0, 4>>, <<4, 0, 4>>, <<4, 4, 4>>),
       Facet(<<0, 0, 4>>, <<4, 4, 4>>, <<0, 4, 4>>) >>

CubeBottom ==
    << Facet(<<0, 0, 0>>, <<4, 4, 0>>, <<4, 0, 0>>),
       Facet(<<0, 0, 0>>, <<0, 4, 0>>, <<4, 4, 0>>) >>

\* A side face as two bands of two triangles, z in [2, 4] and z in [0, 2],
\* between the vertical edges at (ax, ay) and (bx, by).
SideUpper(ax, ay, bx, by) ==
    << Facet(<<ax, ay, 2>>, <<bx, by, 2>>, <<bx, by, 4>>),
       Facet(<<ax, ay, 2>>, <<bx, by, 4>>, <<ax, ay, 4>>) >>

SideLower(ax, ay, bx, by) ==
    << Facet(<<ax, ay, 0>>, <<bx, by, 0>>, <<bx, by, 2>>),
       Facet(<<ax, ay, 0>>, <<bx, by, 2>>, <<ax, ay, 2>>) >>

\* Twelve triangles of the unit cube, none across z = 2: the top, the bottom,
\* and the front and back faces in two bands each (12 distinct vertices).
CubeOpposite ==
    Stl(CubeTop \o SideUpper(0, 0, 4, 0) \o SideUpper(4, 4, 0, 4)
        \o CubeBottom \o SideLower(0, 0, 4, 0) \o SideLower(4, 4, 0, 4))

\* The same with the front and the right face (11 distinct vertices).
CubeAdjacent ==
    Stl(CubeTop \o SideUpper(0, 0, 4, 0) \o SideUpper(4, 0, 4, 4)
        \o CubeBottom \o SideLower(0, 0, 4, 0) \o SideLower(4, 0, 4, 4))

Cubes == {CubeOpposite, CubeAdjacent}

\* One triangle, two triangles apart from each other (one above and one below
\* the midpoint), two triangles with a common edge, no triangle.
OneFacet == Stl(<< Facet(<<0, 0, 0>>, <<2, 0, 0>>, <<0, 2, 2>>) >>)

TwoApart ==
    Stl(<< Facet(<<0, 0, 0>>, <<2, 0, 0>>, <<0, 2, 0>>),
           Facet(<<0, 0, 2>>, <<2, 0, 2>>, <<0, 2, 2>>) >>)

TwoAdjoining ==
    Stl(<< Facet(<<0, 0, 0>>, <<2, 0, 0>>, <<0, 2, 0>>),
           Facet(<<2, 0, 0>>, <<2, 2, 0>>, <<0, 2, 0>>) >>)

MainFiles == Cubes \cup {OneFacet, TwoApart, TwoAdjoining, Stl(<<>>), Corrupt}

\* An output file left by an earlier run.
OldOutput == Stl(<< Facet(<<0, 0, 0>>, <<2, 0, 0>>, <<0, 2, 0>>) >>)

----------------------------------------------------------------------------
(* The run of main as a whole                                              *)

Init ==
    /\ pc = "mkdir_in"
    /\ build \in {"debug", "release"}
    /\ arg \in {"none", "given"}
    /\ dirs \in {{}, {"models/input", "models/output"}}
    /\ stl_files = <<>>
    /\ input = <<>>
    /\ input_path = <<>>
    /\ \E in \in MainFiles \cup {Absent}, out \in {Absent, OldOutput} :
          /\ in = Absent => arg = "given"
          /\ disk = [input |-> in, upper |-> out, lower |-> out]
    /\ mesh = <<>>
    /\ dims = <<>>
    /\ z_split = 0
    /\ upper = <<>>
    /\ lower = <<>>
    /\ status = Running

Next ==
    \/ CreateInputDir
    \/ CreateOutputDir
    \/ ResolveArg
    \/ ReadDir
    \/ Flush
    \/ ReadLine
    \/ Select
    \/ Load
    \/ GetDimensions
    \/ Midpoint
    \/ Split
    \/ SaveUpper
    \/ SaveLower

Spec == Init /\ [][Next]_vars

----------------------------------------------------------------------------
(* Mesh::split on its own: every mesh of the bound, every cutting height   *)

\* The mesh of the triangles with the z-coordinates zs (three a triangle); the
\* vertices differ in x, as the vertices of a loaded mesh differ.
MeshOfZ(zs) ==
    [i \in 1..(Len(zs) \div 3) |->
        Triangle(DefaultNormal,
                 <<2 * (3 * i - 2), 0, zs[3 * i - 2]>>,
                 <<2 * (3 * i - 1), 0, zs[3 * i - 1]>>,
                 <<2 * (3 * i), 0, zs[3 * i]>>)]

SplitMeshes == {MeshOfZ(zs) : zs \in UNION {[1..(3 * n) -> Coords] : n \in 1..MaxTris}}

InitSplit ==
    /\ pc = "split"
    /\ build = "release"
    /\ arg = "given"
    /\ dirs = {}
    /\ stl_files = <<>>
    /\ input = <<>>
    /\ input_path = <<"arg">>
    /\ disk = [input |-> Absent, upper |-> Absent, lower |-> Absent]
    /\ mesh \in SplitMeshes
    /\ dims = <<>>
    /\ z_split \in Heights
    /\ upper = <<>>
    /\ lower = <<>>
    /\ status = Running

SpecSplit == InitSplit /\ [][Split]_vars

----------------------------------------------------------------------------
(* Mesh::get_dimensions on its own                                         *)

\* The y and z of the checked vertices: every value of Coords on either axis.
YZPairs == {<<2, 0>>, <<0, NaN>>, <<NaN, 2>>}

\* The mesh of the vertices with the given y and z; x falls from vertex to
\* vertex, so the vertices differ.
MeshOfYZ(yz) ==
    [i \in 1..(Len(yz) \div 3) |->
        Triangle(DefaultNormal,
                 <<2 * (Len(yz) - (3 * i - 2)), yz[3 * i - 2][1], yz[3 * i - 2][2]>>,
                 <<2 * (Len(yz) - (3 * i - 1)), yz[3 * i - 1][1], yz[3 * i - 1][2]>>,
                 <<2 * (Len(yz) - (3 * i)), yz[3 * i][1], yz[3 * i][2]>>)]

DimMeshes == {MeshOfYZ(yz) : yz \in UNION {[1..(3 * n) -> YZPairs] : n \in 1..MaxDimTris}}

InitDims ==
    /\ pc = "dims"
    /\ build = "release"
    /\ arg = "given"
    /\ dirs = {}
    /\ stl_files = <<>>
    /\ input = <<>>
    /\ input_path = <<"arg">>
    /\ disk = [input |-> Absent, upper |-> Absent, lower |-> Absent]
    /\ mesh \in DimMeshes
    /\ dims = <<>>
    /\ z_split = 0
    /\ upper = <<>>
    /\ lower = <<>>
    /\ status = Running

SpecDims == InitDims /\ [][GetDimensions]_vars

----------------------------------------------------------------------------
(* Mesh::save, then Mesh::load of the file written                         *)

\* The vertices of the checked triangle lists.
FileVertices == {<<0, 0, 0>>, <<2, 0, 0>>, <<0, 2, 0>>, <<0, 0, 2>>}

FileTriangles ==
    {Triangle(FileNormal, v1, v2, v3) : v1 \in FileVertices, v2 \in FileVertices,
                                        v3 \in FileVertices}

InitFile ==
    /\ pc = "rt_save"
    /\ build = "release"
    /\ arg = "given"
    /\ dirs = {}
    /\ stl_files = <<>>
    /\ input = <<>>
    /\ input_path = <<"arg">>
    /\ disk = [input |-> Absent, upper |-> Absent, lower |-> Absent]
    /\ mesh = <<>>
    /\ dims = <<>>
    /\ z_split = 0
    /\ upper \in SeqsUpTo(FileTriangles, MaxFacets)
    /\ lower = <<>>
    /\ status = Running

\* Mesh::save(&upper, path)
RtSave ==
    /\ pc = "rt_save"
    /\ Save(upper, "upper", "rt_load")
    /\ UNCHANGED <<build, arg, dirs, stl_files, input, input_path, mesh, dims,
                   z_split, upper, lower>>

\* Mesh::load(path) of the file just written
RtLoad ==
    /\ pc = "rt_load"
    /\ LET r == MeshLoad(disk.upper)
       IN  IF r.ok
           THEN /\ mesh' = r.triangles
                /\ pc' = "rt_done"
                /\ status' = Success
           ELSE /\ Fail(r.err)
                /\ UNCHANGED mesh
    /\ UNCHANGED <<build, arg, dirs, stl_files, input, input_path, disk, dims,
                   z_split, upper, lower>>

SpecFile == InitFile /\ [][RtSave \/ RtLoad]_vars

----------------------------------------------------------------------------
(* Properties of Mesh::split (SpecSplit)                                   *)

\* The z-coordinate of vertex k of a triangle.
ZOf(triangle, k) == triangle.vertices[k][3]

SplitDone == pc = "save_upper"

\* C1: after split(z) every triangle of upper has its three z-coordinates
\* >= z, every triangle of lower has them <= z, and no triangle of the mesh is
\* in both lists.
SplitSidesHold ==
    SplitDone =>
        /\ \A t \in Range(upper) : \A k \in 1..3 : F32Ge(ZOf(t, k), z_split)
        /\ \A t \in Range(lower) : \A k \in 1..3 : F32Le(ZOf(t, k), z_split)
        /\ \A i \in 1..Len(mesh) :
              ~(mesh[i] \in Range(upper) /\ mesh[i] \in Range(lower))

\* A split that filled both lists.
SplitSidesWitness == SplitDone /\ upper # <<>> /\ lower # <<>>

\* A vertex strictly above z and a vertex strictly below z.
Straddling(t, z) ==
    /\ \E k \in 1..3 : F32Ge(ZOf(t, k), z) /\ ZOf(t, k) # z
    /\ \E k \in 1..3 : F32Le(ZOf(t, k), z) /\ ZOf(t, k) # z

\* The number of lists among upper and lower that hold t.
Landings(t) ==
    (IF t \in Range(upper) THEN 1 ELSE 0) + (IF t \in Range(lower) THEN 1 ELSE 0)

\* The triangles at the positions G of the mesh are in neither list, the
\* others are in exactly one, and the three counts add up to the mesh.
SplitAccounts(G) ==
    /\ Len(upper) + Len(lower) + Cardinality(G) = Len(mesh)
    /\ \A i \in 1..Len(mesh) : Landings(mesh[i]) = IF i \in G THEN 0 ELSE 1

\* C2 as claimed: |upper| + |lower| + |dropped| = N with dropped exactly the
\* straddling triangles: every other triangle is in exactly one list.
SplitDropsOnlyStraddling ==
    SplitDone =>
        SplitAccounts({i \in 1..Len(mesh) : Straddling(mesh[i], z_split)})

\* A z-coordinate of the triangle, or the cutting height, is NaN.
Unordered(t, z) == z = NaN \/ \E k \in 1..3 : ZOf(t, k) = NaN

\* C2 as amended: |upper| + |lower| + |dropped| = N with dropped exactly the
\* triangles that straddle the plane or cannot be compared with it (a NaN
\* z-coordinate or a NaN cutting height): every other triangle is in exactly
\* one list.
SplitDropsStraddlingOrUnordered ==
    SplitDone =>
        SplitAccounts({i \in 1..Len(mesh) :
                          Straddling(mesh[i], z_split) \/ Unordered(mesh[i], z_split)})

\* A split that kept one triangle and dropped a straddling one.
SplitDropsWitness ==
    /\ SplitDone
    /\ Len(upper) + Len(lower) = 1
    /\ \E i \in 1..Len(mesh) : Straddling(mesh[i], z_split)

\* C3: a triangle with its three vertices at exactly z is in upper and not in
\* lower.
SplitOnPlaneGoesUp ==
    SplitDone =>
        \A i \in 1..Len(mesh) :
            (\A k \in 1..3 : ZOf(mesh[i], k) = z_split /\ z_split # NaN)
                => mesh[i] \in Range(upper) /\ mesh[i] \notin Range(lower)

\* A split of a mesh with a triangle in the plane.
SplitOnPlaneWitness ==
    /\ SplitDone
    /\ \E i \in 1..Len(mesh) :
          \A k \in 1..3 : ZOf(mesh[i], k) = z_split /\ z_split # NaN

\* The elements of s at the positions in I, in the order of s.
RECURSIVE TakeAt(_, _, _)
TakeAt(s, I, i) ==
    IF i > Len(s) THEN <<>>
    ELSE (IF i \in I THEN <<s[i]>> ELSE <<>>) \o TakeAt(s, I, i + 1)

\* C10: upper and lower are subsequences of the mesh in its order, made of
\* unchanged triangles, and no position of the mesh is in both.
SplitKeepsOrder ==
    SplitDone =>
        \E U \in SUBSET (1..Len(mesh)), L \in SUBSET (1..Len(mesh)) :
            /\ U \cap L = {}
            /\ upper = TakeAt(mesh, U, 1)
            /\ lower = TakeAt(mesh, L, 1)

\* A split that put two triangles in the same list.
SplitKeepsOrderWitness == SplitDone /\ (Len(upper) >= 2 \/ Len(lower) >= 2)

----------------------------------------------------------------------------
(* Properties of Mesh::get_dimensions (SpecDims)                           *)

DimsDone == pc = "midpoint"

\* The values of coordinate i over the vertices of the mesh.
AxisValues(i) == {Flatten(mesh)[k][i] : k \in 1..Len(Flatten(mesh))}

\* C8 as claimed: min[i] and max[i] are values of coordinate i, min[i] is <=
\* and max[i] is >= coordinate i of every vertex, and the mesh is unchanged.
DimsBoundEveryVertex ==
    /\ [](DimsDone =>
            \A i \in 1..3 :
                /\ dims[1][i] \in AxisValues(i)
                /\ dims[2][i] \in AxisValues(i)
                /\ \A v \in AxisValues(i) : F32Le(dims[1][i], v) /\ F32Ge(dims[2][i], v))
    /\ [][mesh' = mesh]_vars

\* C8 as amended: min[i] and max[i] are values of coordinate i, min[i] is <=
\* and max[i] is >= every coordinate i that is a number (not NaN), they are
\* NaN only when no coordinate i is a number, and the mesh is unchanged.
DimsBoundEveryNumber ==
    /\ [](DimsDone =>
            \A i \in 1..3 :
                /\ dims[1][i] \in AxisValues(i)
                /\ dims[2][i] \in AxisValues(i)
                /\ \A v \in AxisValues(i) \ {NaN} :
                      F32Le(dims[1][i], v) /\ F32Ge(dims[2][i], v)
                /\ (dims[1][i] = NaN \/ dims[2][i] = NaN) => AxisValues(i) = {NaN})
    /\ [][mesh' = mesh]_vars

\* Dimensions of a mesh whose least y is not at the first vertex and whose z
\* has a NaN beside a number.
DimsWitness ==
    /\ DimsDone
    /\ dims[1][2] # NaN
    /\ mesh[1].vertices[1][2] # dims[1][2]
    /\ NaN \in AxisValues(3)
    /\ dims[1][3] # NaN

----------------------------------------------------------------------------
(* Properties of Mesh::load and Mesh::save (SpecFile)                      *)

\* load has returned: the save before it left an STL file.
LoadReturned == pc \in {"rt_done", "failed"} /\ disk.upper.kind = "stl"

\* The number of vertices read_stl decodes from the file written.
DecodedCount == Cardinality(Range(FacetVertices(disk.upper.facets)))

\* C4: load fails with the not-divisible-by-3 error (MalformedInput) when the
\* decoded vertex count is no multiple of 3 and with the no-triangles error
\* (EmptyMesh) when it is zero; a mesh it returns has at least one triangle
\* and three vertices in each.
LoadRejectsBadCounts ==
    LoadReturned =>
        /\ DecodedCount % 3 # 0 => pc = "failed" /\ status.err = ErrNotDivisible
        /\ DecodedCount = 0 => pc = "failed" /\ status.err = ErrNoTriangles
        /\ pc = "rt_done" =>
              /\ Len(mesh) >= 1
              /\ \A t \in Range(mesh) : Len(t.vertices) = 3
              /\ 3 * Len(mesh) = DecodedCount

\* A load that rejected a vertex count that is no multiple of 3.
LoadRejectsWitness ==
    LoadReturned /\ DecodedCount % 3 # 0 /\ status.err = ErrNotDivisible

\* The triangle has three different vertices.
Proper(t) == Cardinality(Range(t.vertices)) = 3

\* C7, for the lists of one or more triangles with three different vertices
\* each: load of the file that save wrote returns a mesh with the same
\* vertices in the same order.
RoundTripKeepsVertices ==
    (LoadReturned /\ upper # <<>> /\ \A t \in Range(upper) : Proper(t)) =>
        pc = "rt_done" /\ Flatten(mesh) = Flatten(upper)

----------------------------------------------------------------------------
(* Properties of the run (Spec)                                            *)

\* The steps of a run, in order: directories, input path, load, bounding box,
\* split, upper file, lower file, end.
StepOf(p) ==
    CASE p \in {"mkdir_in", "mkdir_out"} -> 1
      [] p \in {"args", "read_dir", "flush", "read_line", "select"} -> 2
      [] p = "load" -> 3
      [] p \in {"dims", "midpoint"} -> 4
      [] p = "split" -> 5
      [] p = "save_upper" -> 6
      [] p = "save_lower" -> 7
      [] p = "done" -> 8

\* C5: the steps run in their order; a failing step ends the run with a
\* non-zero exit status and nothing runs after it; a failure leaves the
\* directories and the files of the earlier steps as they were, so a failed
\* load leaves the output files untouched and a failed lower write leaves the
\* upper file written.
RunStopsAtFirstFailure ==
    /\ [](/\ pc = "failed" => status.exit \notin {"0", "running"}
          /\ pc = "done" => status.exit = "0"
          /\ pc \in {"save_lower", "done"} => disk.upper = WriteStl(upper))
    /\ [][/\ pc \notin {"failed", "done"}
          /\ pc' # "failed" => StepOf(pc') \in {StepOf(pc), StepOf(pc) + 1}
          /\ dirs \subseteq dirs'
          /\ disk'.input = disk.input
          /\ pc # "save_upper" => disk'.upper = disk.upper
          /\ pc # "save_lower" => disk'.lower = disk.lower
          /\ pc' = "failed" =>
                /\ mesh' = mesh /\ dims' = dims /\ z_split' = z_split
                /\ upper' = upper /\ lower' = lower]_vars

\* The upper file is written and the write of the lower file has failed.
RunStopsWitness ==
    /\ pc = "failed"
    /\ status.err = ErrWrite
    /\ upper # <<>>
    /\ disk.upper = WriteStl(upper)
    /\ disk.lower = Partial

\* The errors of the steps around load, split and save: directories, input
\* selection, file creation and writing.
IoErrors == {ErrCreateDir, ErrNoInput, ErrOverflow, ErrOpen, ErrCreate, ErrWrite}

\* C6: a run on a file of 12 triangles of the unit cube, none across the
\* midpoint, that meets no input/output error ends with 12 triangles loaded,
\* the cut at the midpoint, 6 triangles in upper and in lower, and two files
\* of 6 triangles.
CubeRunSplitsSixSix ==
    (disk.input \in Cubes /\ pc \in {"done", "failed"} /\ status.err \notin IoErrors) =>
        /\ pc = "done"
        /\ Len(mesh) = 12
        /\ z_split = 2
        /\ Len(upper) = 6 /\ Len(lower) = 6
        /\ disk.upper.kind = "stl" /\ disk.upper.count = 6
        /\ disk.lower.kind = "stl" /\ disk.lower.count = 6

\* The selection typed is a number of a listed file.
ValidSelection ==
    /\ ParseUsize(Trim(input)).ok
    /\ ParseUsize(Trim(input)).val \in 1..Len(stl_files)

\* C9: with the files listed, a selection that is no number in 1..K, or a
\* failed read of the prompt, ends the run with the no-input error and a
\* non-zero exit status, nothing loaded and nothing written; a selection n in
\* 1..K gives the n-th listed file.
SelectionAbortsOrResolves ==
    [][/\ (pc = "select" /\ ValidSelection) =>
             /\ pc' = "load"
             /\ input_path' = <<"models/input", stl_files[ParseUsize(Trim(input)).val]>>
       /\ ((pc = "select" /\ ~ValidSelection) \/ (pc = "read_line" /\ pc' # "select")) =>
             /\ pc' = "failed"
             /\ status' = Failure(ErrNoInput)
             /\ mesh' = mesh
             /\ disk' = disk]_vars

====
